---------------------------- MODULE Spec2Model ----------------------------
(***************************************************************************)
(* JournalAnalyzer: the entry filter (utils.py), the aggregator and the    *)
(* report assembler (report_builder.py) and the Generate-report handler    *)
(* (app.py).                                                               *)
(*                                                                         *)
(* Strings are sequences of one-character strings, so that str.split,      *)
(* str.strip, re.escape, str.replace and the regular-expression search are *)
(* computed character by character as the code computes them.              *)
(* A DataFrame is a record [none, rows]: rows is the sequence of its rows, *)
(* each row carrying its index label idx; none marks Python's None.        *)
(***************************************************************************)
EXTENDS Integers, Sequences, FiniteSets, TLC

VARIABLES
    pc,         \* position of the running call: "call" before, "done" after
    df,         \* filter_entries: the entry collection passed in
    date_from,  \* filter_entries: lower date bound, or None
    date_to,    \* filter_entries: upper date bound, or None
    days,       \* filter_entries: the selected days of week
    times,      \* filter_entries: the selected times of day
    keywords,   \* filter_entries: the comma-separated keyword string
    group_col,  \* _build_grouped_excerpts: the grouping column
    max_chars_per_group, \* _build_grouped_excerpts: the character budget
    phrase,     \* _phrase_counts_by_month: the trend phrase
    observed,   \* the installed pandas' default of groupby(observed=...)
    prompt,     \* ollama_chat: the prompt
    api_key,    \* OLLAMA_API_KEY as os.environ.get returns it
    response,   \* ollama_chat: what the endpoint answered to the last request
    requests,   \* the requests posted to the Summarizer endpoint, in order
    chat_calls, \* how many times ollama_chat was called
    entries_data,        \* app.py: the entries fetched at start-up, or None
    analysis_date_range, \* app.py: input.analysis_date_range()
    trend_input,         \* app.py: input.trend_keywords()
    report_path,         \* app.py: reactive value, None or the report's path
    report_error,        \* app.py: reactive value, None or a message
    generating,          \* app.py: reactive flag
    reports,    \* the reports directory: file name -> document written
    clock,      \* the wall clock, in seconds
    clicks,     \* how many times Generate report was clicked
    todo,       \* the inputs of the clicks the user has yet to make, in order
    local,      \* the local variables of the running _generate_report / build_report
    reply_text, \* _extract_json_from_reply: the reply handed in
    filename,   \* api.py get_report: the filename of the request
    out         \* the value the call returned

filterArgs == <<date_from, date_to, days, times, keywords>>
aggArgs == <<group_col, max_chars_per_group, phrase, observed>>

chatArgs == <<prompt, api_key, response, requests, chat_calls>>
appVars == <<entries_data, analysis_date_range, trend_input, report_path, report_error,
             generating, reports, clock, clicks, todo, local>>

appVarsButLocal == <<entries_data, analysis_date_range, trend_input, report_path,
                     report_error, generating, reports, clock, clicks, todo>>

ioArgs == <<reply_text, filename>>

vars == <<pc, df, filterArgs, aggArgs, ioArgs, chatArgs, appVars, out>>

---------------------------------------------------------------------------
(* Bounds of the model *)

\* longest entry collection handed to filter_entries
MaxRows == 2
\* longest keyword string, in characters
MaxKeywordLen == 3
\* longest entry text, in characters
MaxTextLen == 3
\* longest collection handed to _build_grouped_excerpts
MaxGroupRows == 3
\* largest character budget tried on _build_grouped_excerpts
MaxBudget == 4
\* how many times Generate report is clicked in one run
MaxClicks == 1
\* longest Summarizer reply, in tokens, handed to _extract_json_from_reply
MaxReplyLen == 4
\* most path segments in the filename of a report request
MaxSegments == 3

---------------------------------------------------------------------------
(* Values *)

\* Python's None where a date is expected (dates are yyyymmdd numbers)
None == 0

NoneDF == [none |-> TRUE, rows |-> <<>>]
DataFrame(rows) == [none |-> FALSE, rows |-> rows]

\* pd.DataFrame(): no rows
EmptyDataFrame == DataFrame(<<>>)

Range(s) == {s[i] : i \in DOMAIN s}

\* all sequences over S of length at most n
SeqsUpTo(S, n) == UNION {[1..k -> S] : k \in 0..n}

\* the RangeIndex 0..n-1 a freshly built DataFrame carries
WithRangeIndex(rows) == [i \in DOMAIN rows |-> [rows[i] EXCEPT !.idx = i - 1]]

---------------------------------------------------------------------------
(* Python string operations *)

IsSpace(c) == c \in {" ", "\n", "\t"}

RECURSIVE LStrip(_)
LStrip(s) == IF s = <<>> THEN s
             ELSE IF IsSpace(Head(s)) THEN LStrip(Tail(s)) ELSE s

RECURSIVE RStrip(_)
RStrip(s) == IF s = <<>> THEN s
             ELSE IF IsSpace(s[Len(s)]) THEN RStrip(SubSeq(s, 1, Len(s) - 1)) ELSE s

\* str.strip()
Strip(s) == RStrip(LStrip(s))

\* str.split(sep) for a one-character sep: always at least one piece
RECURSIVE Split(_, _)
Split(s, sep) ==
    LET hits == {i \in DOMAIN s : s[i] = sep}
    IN  IF hits = {} THEN <<s>>
        ELSE LET i == CHOOSE h \in hits : \A g \in hits : h <= g
             IN  <<SubSeq(s, 1, i - 1)>> \o Split(SubSeq(s, i + 1, Len(s)), sep)

\* str.lower() on one character
Lower(c) == CASE c = "A" -> "a"
              [] c = "B" -> "b"
              [] OTHER   -> c

\* the characters re.escape puts a backslash before
ReSpecial == {"*", " ", "\n", "\t", ".", "\\", "|", "(", ")", "?"}

\* re.escape(p)
RECURSIVE ReEscape(_)
ReEscape(p) == IF p = <<>> THEN <<>>
               ELSE (IF Head(p) \in ReSpecial THEN <<"\\", Head(p)>> ELSE <<Head(p)>>)
                    \o ReEscape(Tail(p))

\* s.replace("\\*", ".*"): every backslash-star pair, scanning left to right
RECURSIVE ReplaceEscapedStar(_)
ReplaceEscapedStar(s) ==
    IF s = <<>> THEN <<>>
    ELSE IF Len(s) >= 2 /\ s[1] = "\\" /\ s[2] = "*"
         THEN <<".", "*">> \o ReplaceEscapedStar(SubSeq(s, 3, Len(s)))
         ELSE <<Head(s)>> \o ReplaceEscapedStar(Tail(s))

---------------------------------------------------------------------------
(* The regular-expression search of Series.str.contains(pattern, case=False) *)

\* re.match of one alternative p at position j of text t, under re.IGNORECASE
\* and without re.DOTALL: p holds escaped literals (a backslash, then the
\* character), plain literals, and ".*" (any run of characters but newline)
RECURSIVE ReMatchAt(_, _, _)
ReMatchAt(p, t, j) ==
    IF p = <<>> THEN TRUE
    ELSE IF p[1] = "\\" /\ Len(p) >= 2
         THEN /\ j <= Len(t)
              /\ Lower(t[j]) = Lower(p[2])
              /\ ReMatchAt(SubSeq(p, 3, Len(p)), t, j + 1)
    ELSE IF p[1] = "." /\ Len(p) >= 2 /\ p[2] = "*"
         THEN \E k \in j..(Len(t) + 1) :
                  /\ \A i \in j..(k - 1) : t[i] # "\n"
                  /\ ReMatchAt(SubSeq(p, 3, Len(p)), t, k)
    ELSE /\ j <= Len(t)
         /\ Lower(t[j]) = Lower(p[1])
         /\ ReMatchAt(Tail(p), t, j + 1)

\* re.search: a match starting anywhere
ReSearch(p, t) == \E j \in 1..(Len(t) + 1) : ReMatchAt(p, t, j)

---------------------------------------------------------------------------
(* utils.py: filter_entries *)

\* parts = [p.strip() for p in keywords.split(",") if p.strip()]
KeywordParts(kw) ==
    LET pieces == Split(kw, ",")
    IN  [i \in DOMAIN SelectSeq(pieces, LAMBDA x : Strip(x) # <<>>) |->
            Strip(SelectSeq(pieces, LAMBDA x : Strip(x) # <<>>)[i])]

\* wild = re.escape(p).replace("\\*", ".*"), one alternative per part
PatternParts(parts) == [i \in DOMAIN parts |-> ReplaceEscapedStar(ReEscape(parts[i]))]

\* out["text"].str.contains("|".join(pattern_parts), case=False, regex=True)
KeywordMask(text, pattern_parts) ==
    \E i \in DOMAIN pattern_parts : ReSearch(pattern_parts[i], text)

\* reset_index() without drop=True: the old labels stay, as a column "index"
ResetIndexKeepingOld(rows) ==
    [i \in DOMAIN rows |->
        [f \in DOMAIN rows[i] \cup {"index"} |->
            IF f = "idx" THEN i - 1
            ELSE IF f = "index" THEN rows[i].idx
            ELSE rows[i][f]]]

\* reset_index(drop=True)
ResetIndex(rows) == WithRangeIndex(rows)

\* filter_entries without the test "df is None": None.copy() raises
filter_entries_unguarded(d, from, to, ds, ts, kw) ==
    IF d.none THEN [kind |-> "raised"]
    ELSE LET o0 == d.rows
             o1 == IF from # None THEN SelectSeq(o0, LAMBDA r : r.date >= from) ELSE o0
             o2 == IF to # None THEN SelectSeq(o1, LAMBDA r : r.date <= to) ELSE o1
             o3 == IF ds # {} THEN SelectSeq(o2, LAMBDA r : r.day_of_week \in ds) ELSE o2
             o4 == IF ts # {} THEN SelectSeq(o3, LAMBDA r : r.time_of_day \in ts) ELSE o3
         IN  DataFrame(WithRangeIndex(o4))

\* filter_entries with the lower date bound exclusive and the index kept
filter_entries_exclusive_from(d, from, to, ds, ts, kw) ==
    IF d.none \/ d.rows = <<>> THEN EmptyDataFrame
    ELSE LET o0 == d.rows
             o1 == IF from # None THEN SelectSeq(o0, LAMBDA r : r.date > from) ELSE o0
             o2 == IF to # None THEN SelectSeq(o1, LAMBDA r : r.date <= to) ELSE o1
             o3 == IF ds # {} THEN SelectSeq(o2, LAMBDA r : r.day_of_week \in ds) ELSE o2
             o4 == IF ts # {} THEN SelectSeq(o3, LAMBDA r : r.time_of_day \in ts) ELSE o3
             parts == KeywordParts(kw)
             o5 == IF kw # <<>> /\ parts # <<>>
                   THEN SelectSeq(o4, LAMBDA r : KeywordMask(r.text, PatternParts(parts)))
                   ELSE o4
         IN  DataFrame(ResetIndex(o5))

filter_entries(d, from, to, ds, ts, kw) ==
    IF d.none \/ d.rows = <<>> THEN EmptyDataFrame
    ELSE LET o0 == d.rows
             o1 == IF from # None THEN SelectSeq(o0, LAMBDA r : r.date >= from) ELSE o0
             o2 == IF to # None THEN SelectSeq(o1, LAMBDA r : r.date <= to) ELSE o1
             o3 == IF ds # {} THEN SelectSeq(o2, LAMBDA r : r.day_of_week \in ds) ELSE o2
             o4 == IF ts # {} THEN SelectSeq(o3, LAMBDA r : r.time_of_day \in ts) ELSE o3
             parts == KeywordParts(kw)
             o5 == IF kw # <<>> /\ parts # <<>>
                   THEN SelectSeq(o4, LAMBDA r : KeywordMask(r.text, PatternParts(parts)))
                   ELSE o4
         IN  DataFrame(ResetIndex(o5))

\* filter_entries_by_date_only
filter_entries_by_date_only(d, from, to) == filter_entries(d, from, to, {}, {}, <<>>)

---------------------------------------------------------------------------
(* Inputs of the filter *)

FilterDates == {20240105, 20240110}
FilterDays == {"Friday", "Wednesday"}
FilterTimes == {"morning", "evening"}
FilterTexts == {<<"a">>, <<"b">>}
\* "", "A" (the text "a" in the other case), and " ," (no phrase remains)
FilterKeywords == {<<>>, <<"A">>, <<" ", ",">>}

\* the arguments of the aggregator, when it is not the one called
IdleAggArgs ==
    /\ group_col = "" /\ max_chars_per_group = 0 /\ phrase = <<>> /\ observed = FALSE

\* Python values: None, str, int, list and dict
PyNone == [t |-> "none"]
PyStr(s) == [t |-> "str", v |-> s]
PyInt(n) == [t |-> "int", v |-> n]
PyList(items) == [t |-> "list", v |-> items]
PyDict(f) == [t |-> "dict", v |-> f]

\* bool(x)
Truthy(x) == CASE x.t = "none" -> FALSE
               [] x.t = "str"  -> x.v # <<>>
               [] x.t = "int"  -> x.v # 0
               [] x.t = "list" -> x.v # <<>>
               [] x.t = "dict" -> DOMAIN x.v # {}

NoResponse == [kind |-> "none"]

\* the Summarizer, when it is not called
IdleChatArgs ==
    /\ prompt = <<>> /\ api_key = PyNone /\ response = NoResponse /\ requests = <<>>
    /\ chat_calls = 0

NoLocal == [none |-> TRUE, calls0 |-> 0, reports0 |-> <<>>, prev |-> [some |-> FALSE]]

\* the app, before anything was fetched or clicked
IdleApp ==
    /\ entries_data = NoneDF /\ analysis_date_range = <<>> /\ trend_input = <<>>
    /\ report_path = PyNone /\ report_error = PyNone /\ generating = FALSE
    /\ reports = <<>> /\ clock = 0 /\ clicks = 0 /\ todo = <<>> /\ local = NoLocal

\* the reply parser and the report retrieval, when they are not called
NoRequest == [asked |-> FALSE, abs |-> FALSE, segs |-> <<>>]

IdleIO == reply_text = <<>> /\ filename = NoRequest

\* the arguments of the filter, when it is not the one called
IdleFilterArgs ==
    /\ date_from = None /\ date_to = None /\ days = {} /\ times = {} /\ keywords = <<>>

FilterRows == [idx : {0}, date : FilterDates, day_of_week : FilterDays,
               time_of_day : FilterTimes, text : FilterTexts]

KeywordChars == {"a", "B", "*", ",", " "}
TextChars == {"A", "b", " ", "\n"}

InitFilter ==
    /\ pc = "call"
    /\ df \in {NoneDF} \cup {DataFrame(WithRangeIndex(r)) : r \in SeqsUpTo(FilterRows, MaxRows)}
    /\ date_from \in FilterDates \cup {None}
    /\ date_to \in FilterDates \cup {None}
    /\ days \in SUBSET FilterDays
    /\ times \in SUBSET FilterTimes
    /\ keywords \in FilterKeywords
    /\ IdleAggArgs
    /\ IdleChatArgs
    /\ IdleApp
    /\ IdleIO
    /\ out = NoneDF

\* one entry, no other constraint: every keyword string against every text
InitKeyword ==
    /\ pc = "call"
    /\ \E t \in SeqsUpTo(TextChars, MaxTextLen) :
          df = DataFrame(<<[idx |-> 0, date |-> 20240105, day_of_week |-> "Friday",
                            time_of_day |-> "morning", text |-> t]>>)
    /\ date_from = None
    /\ date_to = None
    /\ days = {}
    /\ times = {}
    /\ keywords \in SeqsUpTo(KeywordChars, MaxKeywordLen)
    /\ IdleAggArgs
    /\ IdleChatArgs
    /\ IdleApp
    /\ IdleIO
    /\ out = NoneDF

FilterEntries ==
    /\ pc = "call"
    /\ out' = filter_entries(df, date_from, date_to, days, times, keywords)
    /\ pc' = "done"
    /\ UNCHANGED <<df, filterArgs, aggArgs, ioArgs, chatArgs, appVars>>

NextFilter == FilterEntries

SpecFilter == InitFilter /\ [][NextFilter]_vars

SpecKeyword == InitKeyword /\ [][NextFilter]_vars

---------------------------------------------------------------------------
(* The filter contract, stated on the criteria and not on the code *)

\* the phrases of a keyword string: split on commas, trimmed, the empty dropped
Phrases(kw) == {Strip(x) : x \in Range(Split(kw, ","))} \ {<<>>}

\* a phrase matches at position j: "*" stands for any run of characters,
\* every other character for itself, letter case ignored
RECURSIVE GlobAt(_, _, _)
GlobAt(ph, t, j) ==
    IF ph = <<>> THEN TRUE
    ELSE IF Head(ph) = "*"
         THEN \E k \in j..(Len(t) + 1) : GlobAt(Tail(ph), t, k)
         ELSE /\ j <= Len(t)
              /\ Lower(t[j]) = Lower(Head(ph))
              /\ GlobAt(Tail(ph), t, j + 1)

\* the same, "*" standing for any run of characters of one line
RECURSIVE GlobAtLine(_, _, _)
GlobAtLine(ph, t, j) ==
    IF ph = <<>> THEN TRUE
    ELSE IF Head(ph) = "*"
         THEN \E k \in j..(Len(t) + 1) :
                  /\ \A i \in j..(k - 1) : t[i] # "\n"
                  /\ GlobAtLine(Tail(ph), t, k)
         ELSE /\ j <= Len(t)
              /\ Lower(t[j]) = Lower(Head(ph))
              /\ GlobAtLine(Tail(ph), t, j + 1)

\* the text holds a match of some phrase, or no phrase remains
KeywordConstraint(kw, t) ==
    \/ Phrases(kw) = {}
    \/ \E ph \in Phrases(kw) : \E j \in 1..(Len(t) + 1) : GlobAt(ph, t, j)

KeywordConstraintLine(kw, t) ==
    \/ Phrases(kw) = {}
    \/ \E ph \in Phrases(kw) : \E j \in 1..(Len(t) + 1) : GlobAtLine(ph, t, j)

\* every constraint of the current criteria that is set, on entry e
Satisfies(e) ==
    /\ date_from # None => date_from <= e.date
    /\ date_to # None => e.date <= date_to
    /\ days # {} => e.day_of_week \in days
    /\ times # {} => e.time_of_day \in times
    /\ KeywordConstraint(keywords, e.text)

\* an entry without its index label
Content(r) == <<r.date, r.day_of_week, r.time_of_day, r.text>>
Contents(rows) == [i \in DOMAIN rows |-> Content(rows[i])]

\* C1: filter_entries returns exactly the input entries that satisfy every
\* constraint that is set, in their input order, indexed 0, 1, 2, ...; with
\* date_from = date_to = D exactly the entries dated D (among those passing the
\* other constraints); with all-empty criteria the input itself.
C1_FilterExact ==
    pc = "done" =>
        LET sel == SelectSeq(df.rows, Satisfies)
        IN  /\ ~out.none
            /\ Contents(out.rows) = Contents(sel)
            /\ \A i \in DOMAIN out.rows : out.rows[i].idx = i - 1
            /\ (date_from # None /\ date_from = date_to /\ days = {} /\ times = {}
                    /\ keywords = <<>>)
                => Contents(out.rows)
                     = Contents(SelectSeq(df.rows, LAMBDA e : e.date = date_from))
            /\ (date_from = None /\ date_to = None /\ days = {} /\ times = {}
                    /\ Phrases(keywords) = {})
                => out.rows = df.rows

\* every constraint is set, the first of two entries is dropped and the second
\* kept and re-indexed to 0
C1_Witness ==
    /\ pc = "done"
    /\ date_from # None /\ date_to # None /\ days # {} /\ times # {}
    /\ keywords = <<"A">>
    /\ Len(df.rows) = 2 /\ Len(out.rows) = 1
    /\ Content(out.rows[1]) = Content(df.rows[2])
    /\ df.rows[2].idx = 1 /\ out.rows[1].idx = 0

\* C2: an entry passes the keyword constraint if and only if its text matches
\* at least one trimmed, non-empty phrase of the comma-separated keywords, "*"
\* matching zero or more characters of any kind, the other characters
\* literally, case-insensitively; with no phrase left nothing is removed.
C2_KeywordConstraint ==
    pc = "done" => (out.rows # <<>> <=> KeywordConstraint(keywords, df.rows[1].text))

\* what the code computes for C2: "*" matches zero or more characters other
\* than a line break
C2_WithinOneLine ==
    pc = "done" => (out.rows # <<>> <=> KeywordConstraintLine(keywords, df.rows[1].text))

\* a wildcard phrase kept an entry, in the other letter case
C2_Witness ==
    /\ pc = "done"
    /\ keywords = <<"a", "*", "B">>
    /\ df.rows[1].text = <<"A", " ", "b">>
    /\ out.rows # <<>>

---------------------------------------------------------------------------
(* report_builder.py: the aggregator *)

\* _EXCERPT_CHARS_PER_GROUP
EXCERPT_CHARS_PER_GROUP == 600

dow_order == <<"Monday", "Tuesday", "Wednesday", "Thursday", "Friday", "Saturday", "Sunday">>
tod_order == <<"morning", "afternoon", "evening">>

Min(a, b) == IF a <= b THEN a ELSE b

\* df["date"].dt.to_period("M").astype(str): the label "YYYY-MM" of a yyyymmdd
\* date, kept as the number yyyymm (same order as the labels)
Month(date) == date \div 100

\* a frame whose day_of_week column is a pd.Categorical with these categories
CategoricalFrame(rows, cats) == [none |-> FALSE, rows |-> rows, categories |-> cats]

IsCategorical(d, col) == col = "day_of_week" /\ "categories" \in DOMAIN d

\* str.rsplit(maxsplit=1): at most the text before the last word, and the last word
RSplit1(s) ==
    LET r == RStrip(s)
        spaces == {i \in DOMAIN r : IsSpace(r[i])}
    IN  IF r = <<>> THEN <<>>
        ELSE IF spaces = {} THEN <<r>>
        ELSE LET k == CHOOSE i \in spaces : \A j \in spaces : j <= i
                 head == RStrip(SubSeq(r, 1, k - 1))
                 last == SubSeq(r, k + 1, Len(r))
             IN  IF head = <<>> THEN <<last>> ELSE <<head, last>>

_excerpt(text, max_chars) ==
    IF text = <<>> \/ Len(text) <= max_chars THEN Strip(text)
    ELSE LET cut == SubSeq(text, 1, max_chars)
             s == RSplit1(cut)
         IN  Strip(IF s # <<>> THEN s[1] ELSE cut)

\* " ".join(parts)
RECURSIVE JoinSpace(_)
JoinSpace(parts) ==
    IF parts = <<>> THEN <<>>
    ELSE IF Len(parts) = 1 THEN parts[1]
    ELSE parts[1] \o <<" ">> \o JoinSpace(Tail(parts))

\* the loop over one group's rows, from row i on, with parts and total so far
RECURSIVE ExcerptParts(_, _, _, _, _)
ExcerptParts(grp, i, parts, total, budget) ==
    IF i > Len(grp) THEN parts
    ELSE LET t == Strip(grp[i].text)
         IN  IF t = <<>> THEN ExcerptParts(grp, i + 1, parts, total, budget)
             ELSE LET take == Min(Len(t), budget - total)
                  IN  IF take <= 0 THEN parts
                      ELSE LET part == _excerpt(t, take)
                               total2 == total + Len(part)
                           IN  IF total2 >= budget THEN Append(parts, part)
                               ELSE ExcerptParts(grp, i + 1, Append(parts, part),
                                                 total2, budget)

\* the value of the grouping column in a row
KeyOf(r, col) == CASE col = "month" -> Month(r.date)
                   [] col = "day_of_week" -> r.day_of_week
                   [] col = "time_of_day" -> r.time_of_day

\* the distinct keys of the rows, in the order they are first met
RECURSIVE FirstSeen(_, _, _)
FirstSeen(rows, col, seen) ==
    IF rows = <<>> THEN seen
    ELSE LET k == KeyOf(Head(rows), col)
         IN  FirstSeen(Tail(rows), col,
                       IF k \in Range(seen) THEN seen ELSE Append(seen, k))

\* df.groupby(col, sort=False): the group keys in iteration order.  On a plain
\* column these are the values met, in first-met order.  On a categorical
\* column pandas adds, when groupby's observed is False (the default before
\* pandas 3.0), one empty group per category that no row has, after the
\* observed ones and in category order.
GroupKeys(d, col, obs) ==
    LET seen == FirstSeen(d.rows, col, <<>>)
    IN  IF IsCategorical(d, col) /\ ~obs
        THEN seen \o SelectSeq(d.categories, LAMBDA c : c \notin Range(seen))
        ELSE seen

_build_grouped_excerpts(d, col, budget, obs) ==
    LET keys == GroupKeys(d, col, obs)
    IN  [i \in DOMAIN keys |->
            [group |-> keys[i],
             excerpts |-> JoinSpace(ExcerptParts(
                 SelectSeq(d.rows, LAMBDA r : KeyOf(r, col) = keys[i]),
                 1, <<>>, 0, budget))]]

\* build_report: df_dow, the frame with day_of_week made categorical, sorted
\* by it and without the rows whose day is none of the categories
df_dow(d) ==
    LET known == SelectSeq(d.rows, LAMBDA r : r.day_of_week \in Range(dow_order))
        RECURSIVE ByDay(_)
        ByDay(i) == IF i > Len(dow_order) THEN <<>>
                    ELSE SelectSeq(known, LAMBDA r : r.day_of_week = dow_order[i])
                         \o ByDay(i + 1)
    IN  CategoricalFrame(ByDay(1), dow_order)

---------------------------------------------------------------------------
(* Inputs of _build_grouped_excerpts *)

ExcerptChars == {"a", " "}

\* one group: every text over ExcerptChars against every small budget
InitExcerptBudget ==
    /\ group_col = "time_of_day"
    /\ max_chars_per_group \in 1..MaxBudget
    /\ observed = FALSE
    /\ df \in {DataFrame(WithRangeIndex(r)) :
                r \in SeqsUpTo([idx : {0}, date : {20240105}, day_of_week : {"Friday"},
                                time_of_day : {"morning"},
                                text : SeqsUpTo(ExcerptChars, MaxTextLen)],
                               MaxGroupRows)}

GroupRowsIn == [idx : {0}, date : {20240201, 20240105}, day_of_week : FilterDays,
                time_of_day : FilterTimes, text : FilterTexts]

\* the three calls of build_report: the window by month and by time of day,
\* and df_dow by day of week, with the default budget
InitExcerptGroups ==
    /\ group_col \in {"month", "day_of_week", "time_of_day"}
    /\ max_chars_per_group = EXCERPT_CHARS_PER_GROUP
    /\ observed \in (IF group_col = "day_of_week" THEN BOOLEAN ELSE {FALSE})
    /\ \E r \in SeqsUpTo(GroupRowsIn, MaxGroupRows) :
          df = IF group_col = "day_of_week"
               THEN df_dow(DataFrame(WithRangeIndex(r)))
               ELSE DataFrame(WithRangeIndex(r))

InitExcerpts ==
    /\ pc = "call"
    /\ IdleFilterArgs
    /\ IdleChatArgs
    /\ IdleApp
    /\ IdleIO
    /\ phrase = <<>>
    /\ out = <<>>
    /\ (InitExcerptBudget \/ InitExcerptGroups)

BuildGroupedExcerpts ==
    /\ pc = "call"
    /\ out' = _build_grouped_excerpts(df, group_col, max_chars_per_group, observed)
    /\ pc' = "done"
    /\ UNCHANGED <<df, filterArgs, aggArgs, ioArgs, chatArgs, appVars>>

NextExcerpts == BuildGroupedExcerpts

SpecExcerpts == InitExcerpts /\ [][NextExcerpts]_vars

---------------------------------------------------------------------------
(* The excerpt contract *)

\* the words of a text: its maximal runs of non-space characters
WordsOf(t) ==
    {SubSeq(t, i, j) : <<i, j>> \in
        {x \in (DOMAIN t) \X (DOMAIN t) :
            /\ x[1] <= x[2]
            /\ \A k \in x[1]..x[2] : ~IsSpace(t[k])
            /\ (x[1] = 1 \/ IsSpace(t[x[1] - 1]))
            /\ (x[2] = Len(t) \/ IsSpace(t[x[2] + 1]))}}

\* the length of the longest word of the rows' texts
LongestWord(rows) ==
    LET lens == {Len(w) : w \in UNION {WordsOf(rows[i].text) : i \in DOMAIN rows}}
    IN  IF lens = {} THEN 0 ELSE CHOOSE n \in lens : \A m \in lens : m <= n

\* C9: the excerpt text of a group never exceeds the character budget by more
\* than the length of one word (here: of the longest word of the group's
\* entries, the most the claim can mean).
C9_ExcerptBudget ==
    pc = "done" =>
        \A i \in DOMAIN out :
            Len(out[i].excerpts) <= max_chars_per_group + LongestWord(df.rows)

\* what the code keeps for C9: the fragments together stay within the budget,
\* the spaces joining them come on top (at most budget - 1 of them)
C9_FragmentsWithinBudget ==
    pc = "done" =>
        \A i \in DOMAIN out :
            /\ Cardinality({k \in DOMAIN out[i].excerpts : out[i].excerpts[k] # " "})
                   <= max_chars_per_group
            /\ Len(out[i].excerpts) <= 2 * max_chars_per_group - 1

\* the keys that occur in the collection
OccurringKeys == {KeyOf(df.rows[i], group_col) : i \in DOMAIN df.rows}

FirstRowOf(k) == CHOOSE i \in DOMAIN df.rows :
                    /\ KeyOf(df.rows[i], group_col) = k
                    /\ \A j \in 1..(i - 1) : KeyOf(df.rows[j], group_col) # k

\* the texts of group k in collection order, joined (the budget is not reached)
TextsOf(k) ==
    LET grp == SelectSeq(df.rows, LAMBDA r : KeyOf(r, group_col) = k)
    IN  JoinSpace([i \in DOMAIN grp |-> grp[i].text])

\* C10: one Group Excerpt per key value that occurs in the collection and none
\* for any other value, in the order the values are first met, each built from
\* its group's entries in collection order.
C10_OnePerOccurringKey ==
    (pc = "done" /\ max_chars_per_group = EXCERPT_CHARS_PER_GROUP) =>
        /\ Len(out) = Cardinality(OccurringKeys)
        /\ {out[i].group : i \in DOMAIN out} = OccurringKeys
        /\ \A i, j \in DOMAIN out :
              i < j => FirstRowOf(out[i].group) < FirstRowOf(out[j].group)
        /\ \A i \in DOMAIN out : out[i].excerpts = TextsOf(out[i].group)

\* what the code keeps for C10: the same on a plain column, or on a
\* categorical one when groupby's observed is True
C10_PlainOrObserved ==
    (IsCategorical(df, group_col) => observed) => C10_OnePerOccurringKey

---------------------------------------------------------------------------
(* report_builder.py: phrase counts by month *)

\* str.lower()
LowerStr(s) == [i \in DOMAIN s |-> Lower(s[i])]

\* str.split() without arguments: the runs of non-space characters, in order
RECURSIVE SplitWords(_)
SplitWords(s) ==
    LET t == LStrip(s)
        spaces == {i \in DOMAIN t : IsSpace(t[i])}
    IN  IF t = <<>> THEN <<>>
        ELSE IF spaces = {} THEN <<t>>
        ELSE LET k == CHOOSE i \in spaces : \A j \in spaces : i <= j
             IN  <<SubSeq(t, 1, k - 1)>> \o SplitWords(SubSeq(t, k + 1, Len(t)))

\* word in text
Contains(text, word) ==
    \E j \in 1..(Len(text) - Len(word) + 1) : SubSeq(text, j, j + Len(word) - 1) = word

\* _phrase_matches_entry with any word of the phrase sufficing
_phrase_matches_entry_any_word(text, ph) ==
    IF text = <<>> \/ ph = <<>> THEN FALSE
    ELSE LET words == SplitWords(ph)
         IN  \E i \in DOMAIN words : Contains(LowerStr(text), LowerStr(Strip(words[i])))

_phrase_matches_entry(text, ph) ==
    IF text = <<>> \/ ph = <<>> THEN FALSE
    ELSE LET text_lower == LowerStr(text)
             words == SplitWords(ph)
         IN  \A i \in DOMAIN words : Contains(text_lower, LowerStr(Strip(words[i])))

\* the elements of a set of numbers in ascending order
RECURSIVE Ascending(_)
Ascending(S) ==
    IF S = {} THEN <<>>
    ELSE LET lo == CHOOSE x \in S : \A y \in S : x <= y
         IN  <<lo>> \o Ascending(S \ {lo})

\* df.groupby("month", as_index=False)["match"].sum(): one row per month of
\* the frame, the months sorted, the count of matching rows
_phrase_counts_by_month(d, ph) ==
    LET months == Ascending({Month(d.rows[i].date) : i \in DOMAIN d.rows})
    IN  [i \in DOMAIN months |->
            [month |-> months[i],
             count |-> Cardinality({k \in DOMAIN d.rows :
                          /\ Month(d.rows[k].date) = months[i]
                          /\ _phrase_matches_entry(d.rows[k].text, ph)})]]

\* app.py: trend_keywords = [k.strip() for k in keywords_str.split(",") if k.strip()]
trend_keywords(keywords_str) ==
    LET stripped == [i \in DOMAIN Split(keywords_str, ",") |->
                        Strip(Split(keywords_str, ",")[i])]
    IN  SelectSeq(stripped, LAMBDA k : k # <<>>)

---------------------------------------------------------------------------
(* Inputs of _phrase_counts_by_month *)

PhraseChars == {"A", "b", " ", ","}
PhraseTextChars == {"a", "B", " "}

\* the phrases build_report can be given: the parts of a trend-keywords string
TrendPhrases ==
    UNION {Range(trend_keywords(k)) : k \in SeqsUpTo(PhraseChars, MaxKeywordLen)}

\* one entry: every text against every phrase
InitPhraseMatch ==
    /\ phrase \in TrendPhrases
    /\ \E t \in SeqsUpTo(PhraseTextChars, MaxTextLen) :
          df = DataFrame(<<[idx |-> 0, date |-> 20240105, day_of_week |-> "Friday",
                            time_of_day |-> "morning", text |-> t]>>)

PhraseRowsIn == [idx : {0}, date : {20240201, 20240105, 20240110},
                 day_of_week : {"Friday"}, time_of_day : {"morning"},
                 text : {<<"a">>, <<"b", " ", "a">>}]

\* a non-empty window over two months, in any storage order
InitPhraseMonths ==
    /\ phrase \in {<<"A", " ", "b">>, <<"b">>}
    /\ df \in {DataFrame(WithRangeIndex(r)) :
                r \in SeqsUpTo(PhraseRowsIn, MaxGroupRows) \ {<<>>}}

InitPhrase ==
    /\ pc = "call"
    /\ IdleFilterArgs
    /\ IdleChatArgs
    /\ IdleApp
    /\ IdleIO
    /\ group_col = "" /\ max_chars_per_group = 0 /\ observed = FALSE
    /\ out = <<>>
    /\ (InitPhraseMatch \/ InitPhraseMonths)

PhraseCountsByMonth ==
    /\ pc = "call"
    /\ out' = _phrase_counts_by_month(df, phrase)
    /\ pc' = "done"
    /\ UNCHANGED <<df, filterArgs, aggArgs, ioArgs, chatArgs, appVars>>

NextPhrase == PhraseCountsByMonth

SpecPhrase == InitPhrase /\ [][NextPhrase]_vars

\* word w occurs in text t, letter case ignored
OccursIn(w, t) ==
    \E j \in 1..(Len(t) - Len(w) + 1) :
        \A k \in 1..Len(w) : Lower(t[j + k - 1]) = Lower(w[k])

\* C3: one (month, count) pair per month in which the collection has an entry
\* and none for any other month, the months ascending, count being the number
\* of the month's entries whose text contains every whitespace-separated word
\* of the phrase as a case-insensitive substring (0 when none does).
C3_PhraseCountsByMonth ==
    pc = "done" =>
        /\ {out[i].month : i \in DOMAIN out} = {Month(df.rows[k].date) : k \in DOMAIN df.rows}
        /\ \A i, j \in DOMAIN out : i < j => out[i].month < out[j].month
        /\ \A i \in DOMAIN out :
              out[i].count = Cardinality({k \in DOMAIN df.rows :
                                /\ Month(df.rows[k].date) = out[i].month
                                /\ \A w \in WordsOf(phrase) : OccursIn(w, df.rows[k].text)})

\* stored February first: January is listed first with count 0 (its entry has
\* only one of the two words), February with both of its entries
C3_Witness ==
    /\ pc = "done"
    /\ phrase = <<"A", " ", "b">>
    /\ Len(df.rows) = 3
    /\ Month(df.rows[1].date) = 202402
    /\ out = <<[month |-> 202401, count |-> 0], [month |-> 202402, count |-> 2]>>

---------------------------------------------------------------------------
(* utils.py: ollama_chat *)

\* what requests.post sends
ChatRequest(p, key) ==
    [url |-> "https://ollama.com/api/chat",
     authorization |-> key.v,
     model |-> "gpt-oss:20b-cloud",
     messages |-> <<[role |-> "user", content |-> p]>>,
     stream |-> FALSE,
     timeout |-> 60]

\* what the endpoint may answer: no answer at all (requests raises a
\* RequestException), or a status with a body that is JSON or not
ConnectionFailed == [kind |-> "exception"]
HttpText(status) == [kind |-> "http", status |-> status, json |-> FALSE]
HttpJson(status, js) == [kind |-> "http", status |-> status, json |-> TRUE, js |-> js]

\* {"message": {"content": c}}
ChatBody(c) == PyDict([message |-> PyDict([content |-> c])])

\* the try block of ollama_chat on the answer rsp: raise_for_status, r.json(),
\* js.get("message", {}).get("content"); any exception gives None
ChatResult(rsp) ==
    IF rsp.kind = "exception" THEN PyNone
    ELSE IF rsp.status >= 400 THEN PyNone
    ELSE IF ~rsp.json THEN PyNone
    ELSE IF rsp.js.t # "dict" THEN PyNone
    ELSE LET message == IF "message" \in DOMAIN rsp.js.v THEN rsp.js.v.message
                        ELSE PyDict(<<>>)
         IN  IF message.t # "dict" THEN PyNone
             ELSE IF "content" \in DOMAIN message.v THEN message.v.content
             ELSE PyNone

\* ollama_chat(prompt, api_key), the endpoint answering rsp if asked
ollama_chat(p, key, rsp) == IF ~Truthy(key) THEN PyNone ELSE ChatResult(rsp)

\* the requests ollama_chat posts
ollama_chat_requests(p, key) == IF ~Truthy(key) THEN <<>> ELSE <<ChatRequest(p, key)>>

---------------------------------------------------------------------------
(* Inputs of ollama_chat *)

ApiKeys == {PyNone, PyStr(<<>>), PyStr(<<"k">>)}

ReplyTexts == {<<>>, <<"x">>, <<"x", "\n", "x">>}

\* the bodies of a JSON answer
JsonBodies ==
    {PyList(<<>>), PyDict(<<>>), PyDict([message |-> PyNone]),
     PyDict([message |-> PyStr(<<"x">>)]), PyDict([message |-> PyDict(<<>>)]),
     ChatBody(PyNone), ChatBody(PyInt(42)), ChatBody(PyList(<<PyStr(<<"x">>)>>))}
    \cup {ChatBody(PyStr(t)) : t \in ReplyTexts}

Responses ==
    {ConnectionFailed}
    \cup {HttpText(st) : st \in {200, 500}}
    \cup {HttpJson(st, js) : st \in {200, 404, 500}, js \in JsonBodies}

InitChat ==
    /\ pc = "call"
    /\ df = NoneDF
    /\ IdleFilterArgs
    /\ IdleAggArgs
    /\ prompt \in SeqsUpTo(ExcerptChars, MaxTextLen)
    /\ api_key \in ApiKeys
    /\ response = NoResponse
    /\ requests = <<>>
    /\ chat_calls = 0
    /\ IdleApp
    /\ IdleIO
    /\ out = PyNone

OllamaChat ==
    /\ pc = "call"
    /\ \E rsp \in Responses :
          /\ response' = IF Truthy(api_key) THEN rsp ELSE NoResponse
          /\ out' = ollama_chat(prompt, api_key, rsp)
    /\ requests' = requests \o ollama_chat_requests(prompt, api_key)
    /\ chat_calls' = chat_calls + 1
    /\ pc' = "done"
    /\ UNCHANGED <<df, filterArgs, aggArgs, ioArgs, prompt, api_key, appVars>>

NextChat == OllamaChat

SpecChat == InitChat /\ [][NextChat]_vars

\* the answer carries a reply: status below 400 and a body
\* {"message": {"content": <a string>}}
WellFormed(rsp) ==
    /\ rsp.kind = "http" /\ rsp.status < 400 /\ rsp.json
    /\ rsp.js.t = "dict" /\ "message" \in DOMAIN rsp.js.v
    /\ rsp.js.v.message.t = "dict" /\ "content" \in DOMAIN rsp.js.v.message.v
    /\ rsp.js.v.message.v.content.t = "str"

\* C5: without a credential ollama_chat returns nothing and posts no request;
\* with one it posts exactly one request, carrying the prompt as a single user
\* message, and returns nothing on a network error, a non-success status or a
\* malformed body; whatever it returns is the reply text.  (No path of the
\* call raises: the result is always a value.)
C5_ChatContract ==
    pc = "done" =>
        /\ ~Truthy(api_key) => out = PyNone /\ requests = <<>>
        /\ Truthy(api_key) =>
              /\ Len(requests) = 1
              /\ requests[1].messages = <<[role |-> "user", content |-> prompt]>>
              /\ ~WellFormed(response) => out = PyNone
        /\ out # PyNone => out.t = "str" /\ WellFormed(response)
                           /\ out = response.js.v.message.v.content

\* what the code keeps for C5: the above wherever the content field, when
\* present, is a string or null
C5_UnlessContentIsNoText ==
    (pc = "done" /\ out.t \in {"none", "str"}) => C5_ChatContract

---------------------------------------------------------------------------
(* report_builder.py: reading and rendering a Summarizer reply *)
(*                                                                         *)
(* A reply is a sequence of tokens: "x" a word of prose, " " and "\n"      *)
(* white space, "FENCE" a code fence (three backticks), "json" the tag of  *)
(* a fence, "1" a number,                                                  *)
(* "[" and "]", "{" and "}", and the members of an object:                 *)
(*   "m"  "by_month": [{"month": "2024-01", "observation": "o"}]           *)
(*   "d"  "by_day_of_week": [{"day": "Friday", "observation": "o"}]        *)
(*   "n"  "by_time_of_day": 1                                              *)

JsonError == [t |-> "error"]

\* the object with the given member tokens
JsonObject(members) ==
    PyDict([key \in (IF "m" \in Range(members) THEN {"by_month"} ELSE {})
                    \cup (IF "d" \in Range(members) THEN {"by_day_of_week"} ELSE {})
                    \cup (IF "n" \in Range(members) THEN {"by_time_of_day"} ELSE {}) |->
            CASE key = "by_month" ->
                    PyList(<<PyDict([month |-> 202401, observation |-> <<"o">>])>>)
              [] key = "by_day_of_week" ->
                    PyList(<<PyDict([day |-> "Friday", observation |-> <<"o">>])>>)
              [] key = "by_time_of_day" -> PyInt(1)])

\* json.loads(s): the value, or JsonError for a JSONDecodeError
json_loads(s) ==
    LET t == Strip(s)
    IN  IF t = <<"1">> THEN PyInt(1)
        ELSE IF t = <<"[", "]">> THEN PyList(<<>>)
        ELSE IF t = <<"[", "1", "]">> THEN PyList(<<PyInt(1)>>)
        ELSE IF /\ Len(t) >= 2 /\ t[1] = "{" /\ t[Len(t)] = "}"
                /\ \A i \in 2..(Len(t) - 1) : t[i] \in {"m", "d", "n", " ", "\n"}
             THEN JsonObject(SelectSeq(SubSeq(t, 2, Len(t) - 1), LAMBDA c : ~IsSpace(c)))
        ELSE JsonError

\* re.search(r"```(?:json)?\s*([\s\S]*?)```", reply) when with_tag, and
\* re.search(r"```\s*([\s\S]*?)```", reply) otherwise: group 1 of the first
\* match, or <<"nomatch">> (a code fence is never inside a group)
FenceGroup(reply, with_tag) ==
    LET fences == {i \in DOMAIN reply : reply[i] = "FENCE"}
    IN  IF Cardinality(fences) < 2 THEN <<"nomatch">>
        ELSE LET open == CHOOSE i \in fences : \A j \in fences : i <= j
                 close == CHOOSE i \in fences \ {open} : \A j \in fences \ {open} : i <= j
                 inner == SubSeq(reply, open + 1, close - 1)
                 untagged == IF with_tag /\ inner # <<>> /\ Head(inner) = "json"
                             THEN Tail(inner) ELSE inner
             IN  LStrip(untagged)

\* re.search(r"\{[\s\S]*\}", reply): from the first "{" to the last "}"
BraceSpan(reply) ==
    LET opens == {i \in DOMAIN reply : reply[i] = "{"}
    IN  IF opens = {} THEN <<"nomatch">>
        ELSE LET first == CHOOSE i \in opens : \A j \in opens : i <= j
                 closes == {i \in DOMAIN reply : reply[i] = "}" /\ i > first}
             IN  IF closes = {} THEN <<"nomatch">>
                 ELSE SubSeq(reply, first,
                             CHOOSE i \in closes : \A j \in closes : j <= i)

\* the first of the candidates that json.loads accepts, or None
RECURSIVE FirstParsed(_)
FirstParsed(candidates) ==
    IF candidates = <<>> THEN PyNone
    ELSE IF Head(candidates) # <<"nomatch">> /\ json_loads(Head(candidates)) # JsonError
         THEN json_loads(Head(candidates))
         ELSE FirstParsed(Tail(candidates))

_extract_json_from_reply(reply) ==
    LET r == Strip(reply)
    IN  FirstParsed(<<FenceGroup(r, TRUE), FenceGroup(r, FALSE), BraceSpan(r), r>>)

Raised == [kind |-> "raised"]
Placeholder == [kind |-> "placeholder"]
Text(s) == [kind |-> "text", v |-> s]

\* table_for(key, row_key, labels): the observation of each label, "-" for a
\* label without one; Raised when parsed.get(key) cannot be iterated
TableFor(parsed, key, row_key, labels) ==
    LET rows == IF key \in DOMAIN parsed.v /\ Truthy(parsed.v[key]) THEN parsed.v[key]
                ELSE PyList(<<>>)
    IN  IF rows.t \notin {"list", "str", "dict"} THEN Raised
        ELSE LET dicts == IF rows.t = "list"
                          THEN SelectSeq(rows.v, LAMBDA r : r.t = "dict")
                          ELSE <<>>
                 hit(label) == {i \in DOMAIN dicts :
                                   row_key \in DOMAIN dicts[i].v /\ dicts[i].v[row_key] = label}
             IN  [kind |-> "table",
                  rows |-> [i \in DOMAIN labels |->
                    [label |-> labels[i],
                     obs |-> IF hit(labels[i]) = {} THEN <<"-">>
                             ELSE dicts[CHOOSE h \in hit(labels[i]) :
                                          \A g \in hit(labels[i]) : g <= h].v.observation]]]

\* _observations_to_html_tables: Raised when parsed has no get (it is no dict)
_observations_to_html_tables(parsed, month_labels, dow, tod) ==
    IF parsed.t # "dict" THEN Raised
    ELSE LET by_month == TableFor(parsed, "by_month", "month", month_labels)
             by_day == TableFor(parsed, "by_day_of_week", "day", dow)
             by_time == TableFor(parsed, "by_time_of_day", "time", tod)
         IN  IF Raised \in {by_month, by_day, by_time} THEN Raised
             ELSE [kind |-> "tables", by_month |-> by_month,
                   by_day_of_week |-> by_day, by_time_of_day |-> by_time]

\* _raw_to_bullet_list
_raw_to_bullet_list(raw) ==
    LET stripped == [i \in DOMAIN Split(raw, "\n") |-> Strip(Split(raw, "\n")[i])]
        lines == SelectSeq(stripped, LAMBDA ln : ln # <<>>)
    IN  IF lines = <<>> THEN (IF raw # <<>> THEN [kind |-> "p", v |-> raw]
                              ELSE [kind |-> "p", v |-> <<"-">>])
        ELSE [kind |-> "bullets", items |-> lines]

---------------------------------------------------------------------------
(* report_builder.py: build_report, and app.py: _generate_report *)

\* _OVERALL_SAMPLE_CHARS
OVERALL_SAMPLE_CHARS == 2500
\* the cap on one entry's share of the overall sample
OVERALL_ENTRY_CHARS == 200

\* the loop of _overall_sample, from row i on
RECURSIVE OverallParts(_, _, _, _, _)
OverallParts(rows, i, parts, total, max_chars) ==
    IF i > Len(rows) THEN parts
    ELSE LET t == Strip(rows[i].text)
         IN  IF t = <<>> THEN OverallParts(rows, i + 1, parts, total, max_chars)
             ELSE LET chunk == _excerpt(t, Min(Len(t), OVERALL_ENTRY_CHARS))
                      total2 == total + Len(chunk)
                  IN  IF total2 >= max_chars THEN Append(parts, chunk)
                      ELSE OverallParts(rows, i + 1, Append(parts, chunk), total2, max_chars)

_overall_sample(d, max_chars) == JoinSpace(OverallParts(d.rows, 1, <<>>, 0, max_chars))

\* the messages of _generate_report
NoEntriesAvailable ==
    PyStr("No journal entries available. Ensure the API is running and try again.")
SelectDateRange == PyStr("Please select an analysis date range.")
NoEntriesInRange ==
    PyStr("No journal entries in the selected date range. Adjust the range and try again.")
GenerationFailed ==
    PyStr("Report generation failed. Check that the API is running and OLLAMA_API_KEY is set in .env.")

\* a file name with the timestamp at minute granularity
FilenameByMinute(ts) ==
    [prefix |-> "journal_report_", stamp |-> ts \div 60, suffix |-> ".html"]

\* journal_report_<YYYYMMDD_HHMMSS>.html for the second ts
Filename(ts) == [prefix |-> "journal_report_", stamp |-> ts, suffix |-> ".html"]

\* str(_REPORTS_DIR / filename)
ReportPath(ts) == [t |-> "path", dir |-> "reports", name |-> Filename(ts)]

\* f with the value v at key k
Put(f, k, v) == [x \in DOMAIN f \cup {k} |-> IF x = k THEN v ELSE f[x]]

\* the prompt of one Summarizer call of build_report
Prompt(about, data) == [about |-> about, data |-> data]

\* no build has returned yet
NoBuild == [some |-> FALSE]

\* the locals of _generate_report at the click, with what was there before it:
\* the calls made, the files written, and the last build that returned
ClickLocal(calls, files, prev) ==
    [none |-> TRUE, calls0 |-> calls, reports0 |-> files, prev |-> prev]

\* the locals once the window is accepted, before build_report
NewLocal(l, subset, kws, from, to) ==
    [none |-> FALSE, calls0 |-> l.calls0, reports0 |-> l.reports0, prev |-> l.prev,
     subset |-> subset, trend_keywords |-> kws,
     date_from |-> from, date_to |-> to,
     now |-> 0, overall_text |-> <<>>,
     activity_summary |-> Placeholder, emotion_summary |-> Placeholder,
     by_month |-> <<>>, by_dow |-> <<>>, by_tod |-> <<>>, month_labels |-> <<>>,
     obs_activity |-> Placeholder, obs_emotion |-> Placeholder,
     i |-> 1, trend_sections |-> <<>>]

\* now.strftime('%Y-%m-%d %H:%M') shows the minute of the timestamp
SecondsPerMinute == 60

\* the document build_report assembles from its locals
FullDoc(l) ==
    [generated |-> l.now \div SecondsPerMinute, n_entries |-> Len(l.subset.rows),
     date_from |-> l.date_from, date_to |-> l.date_to,
     activity_summary |-> l.activity_summary, emotion_summary |-> l.emotion_summary,
     obs_activity |-> l.obs_activity, obs_emotion |-> l.obs_emotion,
     trend_sections |-> l.trend_sections]

\* the last build that returned, after the handler with locals l ended with
\* report_path = path
LastBuild(l, path) ==
    IF ~l.none /\ path # PyNone
    THEN [some |-> TRUE, now |-> l.now, doc |-> FullDoc(l)]
    ELSE l.prev

\* what open(out_path, "w") leaves before anything is written
EmptyFile == [empty |-> TRUE]

\* a character UTF-8 cannot encode: a lone surrogate, as json.loads makes of
\* the escape \ud800 in the body of an answer
Surrogate == "U+D800"

\* the characters a section puts in the document
SectionChars(sec) ==
    CASE sec.kind = "placeholder" -> {}
      [] sec.kind = "text" -> Range(sec.v)
      [] sec.kind = "p" -> Range(sec.v)
      [] sec.kind = "bullets" -> UNION {Range(sec.items[i]) : i \in DOMAIN sec.items}
      [] sec.kind = "tables" ->
            UNION {UNION {Range(t.rows[i].obs) : i \in DOMAIN t.rows} :
                      t \in {sec.by_month, sec.by_day_of_week, sec.by_time_of_day}}

\* f.write(full_doc) with encoding="utf-8" succeeds
Encodable(doc) ==
    Surrogate \notin
        SectionChars(doc.activity_summary) \cup SectionChars(doc.emotion_summary)
        \cup SectionChars(doc.obs_activity) \cup SectionChars(doc.obs_emotion)
        \cup UNION {SectionChars(doc.trend_sections[i].summary) :
                       i \in DOMAIN doc.trend_sections}

\* a variant of the guard of a Summarizer call that ignores the credential
ShouldCallWithoutKey(key, has_data) == has_data

\* "if api_key and <data>": the guard of every Summarizer call of build_report
ShouldCall(key, has_data) == Truthy(key) /\ has_data

\* a variant of the rejections that lets an empty window through
RejectionUnlessWindowEmpty(raw, dr) ==
    IF raw.none \/ raw.rows = <<>> THEN NoEntriesAvailable
    ELSE IF dr = <<>> \/ Len(dr) < 2 THEN SelectDateRange
    ELSE PyNone

\* _generate_report: the message of the rejection, or None when build_report
\* is to be called
Rejection(raw, dr) ==
    IF raw.none \/ raw.rows = <<>> THEN NoEntriesAvailable
    ELSE IF dr = <<>> \/ Len(dr) < 2 THEN SelectDateRange
    ELSE IF filter_entries_by_date_only(raw, dr[1], dr[2]).rows = <<>>
         THEN NoEntriesInRange
    ELSE PyNone

\* the click, with the previous report path left in place
ClickKeepingPath ==
    /\ pc = "idle"
    /\ todo # <<>>
    /\ analysis_date_range' = Head(todo).range
    /\ trend_input' = Head(todo).trend
    /\ todo' = Tail(todo)
    /\ clicks' = clicks + 1
    /\ report_error' = PyNone
    /\ generating' = TRUE
    /\ local' = ClickLocal(chat_calls, reports, LastBuild(local, report_path))
    /\ pc' = "validate"
    /\ UNCHANGED <<df, filterArgs, aggArgs, ioArgs, chatArgs, entries_data, reports, clock,
                   report_path, out>>

\* The click, on the inputs as the user has set them: the handler clears the
\* previous outcome and raises the flag.
Click ==
    /\ pc = "idle"
    /\ todo # <<>>
    /\ analysis_date_range' = Head(todo).range
    /\ trend_input' = Head(todo).trend
    /\ todo' = Tail(todo)
    /\ clicks' = clicks + 1
    /\ report_error' = PyNone
    /\ report_path' = PyNone
    /\ generating' = TRUE
    /\ local' = ClickLocal(chat_calls, reports, LastBuild(local, report_path))
    /\ pc' = "validate"
    /\ UNCHANGED <<df, filterArgs, aggArgs, ioArgs, chatArgs, entries_data, reports, clock, out>>

\* _generate_report up to the call of build_report
Validate ==
    /\ pc = "validate"
    /\ LET raw == entries_data
           dr == analysis_date_range
           msg == Rejection(raw, dr)
       IN  IF msg # PyNone
           THEN /\ report_error' = msg
                /\ pc' = "finally"
                /\ local' = local
           ELSE /\ report_error' = report_error
                /\ pc' = "build_start"
                /\ local' = NewLocal(local, filter_entries_by_date_only(raw, dr[1], dr[2]),
                                     trend_keywords(trend_input), dr[1], dr[2])
    /\ UNCHANGED <<df, filterArgs, aggArgs, ioArgs, chatArgs, entries_data, analysis_date_range,
                   trend_input, report_path, generating, reports, clock, clicks, todo, out>>

\* build_report: the reports directory, the timestamp, the overall sample
BuildStart ==
    /\ pc = "build_start"
    /\ \E t \in {clock, clock + 1} :
          /\ clock' = t
          /\ local' = [local EXCEPT
                          !.now = t,
                          !.overall_text = _overall_sample(local.subset,
                                                           OVERALL_SAMPLE_CHARS)]
    /\ pc' = "overall_activity"
    /\ UNCHANGED <<df, filterArgs, aggArgs, ioArgs, chatArgs, entries_data, analysis_date_range,
                   trend_input, report_path, report_error, generating, reports, clicks, todo, out>>

\* what the Summarizer endpoint answers during a build
ReportReplies ==
    {<<"x", "\n", "x">>, <<"{", "m", "}">>, <<"[", "1", "]">>, <<"{", "n", "}">>,
     <<Surrogate>>}

ReportResponses ==
    {ConnectionFailed, HttpJson(200, ChatBody(PyInt(42)))}
    \cup {HttpJson(200, ChatBody(PyStr(t))) : t \in ReportReplies}

\* one call of ollama_chat: the request posted and the count of calls
Calls(p) ==
    /\ requests' = requests \o ollama_chat_requests(p, api_key)
    /\ chat_calls' = chat_calls + 1

NoCall == UNCHANGED <<requests, chat_calls>>

\* "if reply: summary = reply.strip()": the summary after a call, Raised when
\* reply.strip() raises, the reply being no string
SummaryOf(reply) ==
    IF ~Truthy(reply) THEN Placeholder
    ELSE IF reply.t # "str" THEN Raised
    ELSE Text(Strip(reply.v))

\* a narrative: "if api_key and overall_text: reply = ollama_chat(...); if
\* reply: summary = reply.strip()", the summary being the local named field
NarrativeStep(here, next, about, field) ==
    /\ pc = here
    /\ IF ShouldCall(api_key, local.overall_text # <<>>)
       THEN \E rsp \in ReportResponses :
              LET p == Prompt(about, local.overall_text)
                  summary == SummaryOf(ollama_chat(p, api_key, rsp))
              IN  /\ Calls(p)
                  /\ IF summary = Raised THEN local' = local /\ pc' = "raised"
                     ELSE local' = [local EXCEPT ![field] = summary] /\ pc' = next
       ELSE NoCall /\ local' = local /\ pc' = next
    /\ UNCHANGED <<df, filterArgs, aggArgs, ioArgs, prompt, api_key, response, appVarsButLocal, out>>

OverallActivity ==
    NarrativeStep("overall_activity", "overall_emotion", "activity", "activity_summary")

OverallEmotion ==
    NarrativeStep("overall_emotion", "groups", "emotion", "emotion_summary")

\* sorted(df["month"].unique().tolist())
month_labels(d) == Ascending({Month(d.rows[i].date) : i \in DOMAIN d.rows})

\* build_report: the grouped excerpts and the labels of the observations
GroupExcerpts ==
    /\ pc = "groups"
    /\ local' = [local EXCEPT
          !.by_month = _build_grouped_excerpts(local.subset, "month",
                                               EXCERPT_CHARS_PER_GROUP, observed),
          !.by_dow = _build_grouped_excerpts(df_dow(local.subset), "day_of_week",
                                             EXCERPT_CHARS_PER_GROUP, observed),
          !.by_tod = _build_grouped_excerpts(local.subset, "time_of_day",
                                             EXCERPT_CHARS_PER_GROUP, observed),
          !.month_labels = month_labels(local.subset)]
    /\ pc' = "obs_activity"
    /\ UNCHANGED <<df, filterArgs, aggArgs, ioArgs, chatArgs, appVarsButLocal, out>>

\* the payload of the two observation prompts
Payload(l) == [by_month |-> l.by_month, by_day_of_week |-> l.by_dow,
               by_time_of_day |-> l.by_tod]

\* an observation section from a non-empty reply text: tables when a truthy
\* value is extracted, else the bullet list; Raised when rendering raises
ObservationSection(reply, labels) ==
    LET r == Strip(reply)
        parsed == _extract_json_from_reply(r)
    IN  IF Truthy(parsed)
        THEN _observations_to_html_tables(parsed, labels, dow_order, tod_order)
        ELSE _raw_to_bullet_list(r)

\* an observation: the call, and the rendering of its reply into the local
\* named field
ObservationStep(here, next, about, field) ==
    /\ pc = here
    /\ IF ShouldCall(api_key, local.by_month # <<>> \/ local.by_dow # <<>>
                              \/ local.by_tod # <<>>)
       THEN \E rsp \in ReportResponses :
              LET reply == ollama_chat(Prompt(about, Payload(local)), api_key, rsp)
              IN  /\ Calls(Prompt(about, Payload(local)))
                  /\ IF ~Truthy(reply) THEN local' = local /\ pc' = next
                     ELSE IF reply.t # "str" THEN local' = local /\ pc' = "raised"
                     ELSE LET sec == ObservationSection(reply.v, local.month_labels)
                          IN  IF sec = Raised THEN local' = local /\ pc' = "raised"
                              ELSE local' = [local EXCEPT ![field] = sec] /\ pc' = next
       ELSE NoCall /\ local' = local /\ pc' = next
    /\ UNCHANGED <<df, filterArgs, aggArgs, ioArgs, prompt, api_key, response, appVarsButLocal, out>>

ObsActivity ==
    ObservationStep("obs_activity", "obs_emotion", "obs_activity", "obs_activity")

ObsEmotion ==
    ObservationStep("obs_emotion", "trend", "obs_emotion", "obs_emotion")

\* the locals after one turn of the trend loop
TrendAppended(l, kw, kw_df, summary) ==
    [l EXCEPT !.trend_sections = Append(@, [keyword |-> kw, chart |-> kw_df,
                                            summary |-> summary]),
              !.i = @ + 1]

\* one turn of "for kw in trend_keywords"
Trend ==
    /\ pc = "trend"
    /\ local.i <= Len(local.trend_keywords)
    /\ LET kw == local.trend_keywords[local.i]
           kw_df == _phrase_counts_by_month(local.subset, kw)
           p == Prompt(<<"trend", kw>>, kw_df)
       IN  IF ShouldCall(api_key, kw_df # <<>>)
           THEN \E rsp \in ReportResponses :
                  LET summary == SummaryOf(ollama_chat(p, api_key, rsp))
                  IN  /\ Calls(p)
                      /\ IF summary = Raised THEN local' = local /\ pc' = "raised"
                         ELSE /\ local' = TrendAppended(local, kw, kw_df, summary)
                              /\ pc' = "trend"
           ELSE /\ NoCall
                /\ local' = TrendAppended(local, kw, kw_df, Placeholder)
                /\ pc' = "trend"
    /\ UNCHANGED <<df, filterArgs, aggArgs, ioArgs, prompt, api_key, response, appVarsButLocal, out>>

\* build_report: the document, assembled, is written to the file of this build.
\* open() creates or empties the file; write() raises, with nothing written,
\* on a document UTF-8 cannot encode.
Write ==
    /\ pc = "trend"
    /\ local.i > Len(local.trend_keywords)
    /\ IF Encodable(FullDoc(local))
       THEN /\ reports' = Put(reports, Filename(local.now), FullDoc(local))
            /\ pc' = "set_path"
       ELSE /\ reports' = Put(reports, Filename(local.now), EmptyFile)
            /\ pc' = "raised"
    /\ UNCHANGED <<df, filterArgs, aggArgs, ioArgs, chatArgs, entries_data, analysis_date_range,
                   trend_input, report_path, report_error, generating, clock, clicks, todo,
                   local, out>>

\* _generate_report: report_path.set(path)
SetPath ==
    /\ pc = "set_path"
    /\ report_path' = ReportPath(local.now)
    /\ pc' = "finally"
    /\ UNCHANGED <<df, filterArgs, aggArgs, ioArgs, chatArgs, entries_data, analysis_date_range,
                   trend_input, report_error, generating, reports, clock, clicks, todo, local, out>>

\* _generate_report: except Exception
Except ==
    /\ pc = "raised"
    /\ report_error' = GenerationFailed
    /\ pc' = "finally"
    /\ UNCHANGED <<df, filterArgs, aggArgs, ioArgs, chatArgs, entries_data, analysis_date_range,
                   trend_input, report_path, generating, reports, clock, clicks, todo, local, out>>

\* _generate_report: finally
Finally ==
    /\ pc = "finally"
    /\ generating' = FALSE
    /\ pc' = "idle"
    /\ UNCHANGED <<df, filterArgs, aggArgs, ioArgs, chatArgs, entries_data, analysis_date_range,
                   trend_input, report_path, report_error, reports, clock, clicks, todo, local, out>>

NextReport ==
    \/ Click
    \/ Validate
    \/ BuildStart
    \/ OverallActivity
    \/ OverallEmotion
    \/ GroupExcerpts
    \/ ObsActivity
    \/ ObsEmotion
    \/ Trend
    \/ Write
    \/ SetPath
    \/ Except
    \/ Finally

---------------------------------------------------------------------------
(* Inputs of a report generation *)

ReportRows == [idx : {0}, date : {20240105, 20240210},
               day_of_week : {"Friday", "Monday", "Someday"},
               time_of_day : {"morning", "evening"}, text : {<<"a">>, <<" ">>}]

\* what fetch_entries left in entries_data
ReportFrames ==
    {NoneDF} \cup {DataFrame(WithRangeIndex(r)) : r \in SeqsUpTo(ReportRows, MaxRows)}

\* what the date-range input holds
DateRanges == {<<>>, <<20240105>>, <<None, 20240131>>, <<20240101, 20240131>>,
               <<20240101, 20240229>>, <<20240301, 20240331>>}

\* what the trend input holds
TrendInputs == {<<>>, <<"a">>, <<"a", ",", " ", "b">>}

\* the inputs at one click
ClickInputs(ranges, trends) == [range : ranges, trend : trends]

\* the sequences of 1 to n clicks with inputs from S
ClicksUpTo(S, n) == SeqsUpTo(S, n) \ {<<>>}

\* without a credential: every collection, range and trend input
InitNoKey ==
    /\ api_key \in {PyNone, PyStr(<<>>)}
    /\ observed = FALSE
    /\ entries_data \in ReportFrames
    /\ todo \in ClicksUpTo(ClickInputs(DateRanges, TrendInputs), MaxClicks)

\* with a credential: two collections, every answer of the endpoint
InitKey ==
    /\ api_key = PyStr(<<"k">>)
    /\ observed \in BOOLEAN
    /\ entries_data \in
          {DataFrame(<<[idx |-> 0, date |-> 20240105, day_of_week |-> "Friday",
                        time_of_day |-> "morning", text |-> <<"a">>]>>),
           DataFrame(<<[idx |-> 0, date |-> 20240210, day_of_week |-> "Monday",
                        time_of_day |-> "evening", text |-> <<" ">>],
                       [idx |-> 1, date |-> 20240105, day_of_week |-> "Friday",
                        time_of_day |-> "morning", text |-> <<"a">>]>>)}
    /\ todo \in ClicksUpTo(ClickInputs({<<20240101, 20240229>>, <<20240301, 20240331>>},
                                       {<<>>, <<"a">>}), MaxClicks)

\* the app once the entries are fetched, before the first click
ReportIdle ==
    /\ pc = "idle"
    /\ df = NoneDF
    /\ IdleFilterArgs
    /\ IdleIO
    /\ group_col = "" /\ max_chars_per_group = 0 /\ phrase = <<>>
    /\ prompt = <<>> /\ response = NoResponse /\ requests = <<>> /\ chat_calls = 0
    /\ analysis_date_range = <<>> /\ trend_input = <<>>
    /\ report_path = PyNone /\ report_error = PyNone /\ generating = FALSE
    /\ reports = <<>> /\ clock = 0 /\ clicks = 0 /\ local = ClickLocal(0, <<>>, NoBuild)
    /\ out = <<>>

InitReport == ReportIdle /\ (InitNoKey \/ InitKey)

SpecReport == InitReport /\ [][NextReport]_vars

---------------------------------------------------------------------------
(* Report generation: what a click leaves behind *)

\* the handler has started a build (build_report was called for this click)
InBuild == ~local.none

\* build_report has returned its path
Built == pc = "set_path" \/ (pc \in {"finally", "idle"} /\ report_path # PyNone)

\* an exception was raised during this generation
Failed == pc = "raised" \/ report_error = GenerationFailed

\* this click has made no Summarizer call and written no file
NothingDone == chat_calls = local.calls0 /\ reports = local.reports0

\* the sections of a document that depend on the Summarizer
AISections(doc) ==
    {doc.activity_summary, doc.emotion_summary, doc.obs_activity, doc.obs_emotion}
    \cup {doc.trend_sections[i].summary : i \in DOMAIN doc.trend_sections}

\* C4: without a credential a build on a non-empty window never raises and
\* never calls the Summarizer at any of its steps, and once it has returned,
\* the file of the build holds the whole document, with one trend section per
\* phrase and the placeholder in every section that depends on the Summarizer.
C4_NoKeyPlaceholders ==
    (~Truthy(api_key) /\ InBuild) =>
        /\ pc # "raised" /\ report_error = PyNone
        /\ chat_calls = local.calls0 /\ requests = <<>>
        /\ Built =>
              /\ Filename(local.now) \in DOMAIN reports
              /\ LET doc == reports[Filename(local.now)]
                 IN  /\ doc = FullDoc(local)
                     /\ Len(doc.trend_sections) = Len(local.trend_keywords)
                     /\ AISections(doc) = {Placeholder}

\* C4 happens: a build without a credential has returned, with two phrases
C4_Witness ==
    /\ ~Truthy(api_key) /\ InBuild /\ pc = "set_path"
    /\ local.subset.rows # <<>>
    /\ Len(reports[Filename(local.now)].trend_sections) = 2

\* C6: with a credential, whatever the Summarizer calls yield, a build does
\* not raise: it returns with the document persisted.
C6_NeverRaisesOnReply ==
    (Truthy(api_key) /\ InBuild) =>
        /\ ~Failed
        /\ Built => /\ Filename(local.now) \in DOMAIN reports
                    /\ reports[Filename(local.now)] = FullDoc(local)

\* what the code keeps for C6: a build that has returned has persisted its
\* document, in which a section whose call gave nothing holds the placeholder
C6_ReturnedBuildIsPersisted ==
    (Truthy(api_key) /\ InBuild /\ Built) =>
        /\ Filename(local.now) \in DOMAIN reports
        /\ reports[Filename(local.now)] = FullDoc(local)

\* C7: after an exception during generation there is no report file of that
\* build, the one generic message is surfaced and no report path is set.
C7_NoFileAfterException ==
    Failed =>
        /\ reports = local.reports0
        /\ report_path = PyNone
        /\ pc # "raised" => report_error = GenerationFailed

\* what the code keeps for C7: the generic message and no path, and a file
\* of the failed build, if there is one, is empty
C7_MessageAndNoPath ==
    Failed =>
        /\ report_path = PyNone
        /\ pc # "raised" => report_error = GenerationFailed
        /\ \/ reports = local.reports0
           \/ reports = Put(local.reports0, Filename(local.now), EmptyFile)

\* the handler has decided on this click's entries and range
Handled == clicks > 0 /\ pc # "validate"

NoneLoaded == entries_data.none \/ entries_data.rows = <<>>

\* entries are loaded, the range has its two bounds, and no entry is in it
WindowEmpty ==
    /\ ~NoneLoaded
    /\ Len(analysis_date_range) >= 2
    /\ filter_entries_by_date_only(entries_data, analysis_date_range[1],
                                   analysis_date_range[2]).rows = <<>>

\* C8 as stated: an empty window, and likewise no entries loaded at all, is
\* rejected with the "no entries in range" message, with no Summarizer call
\* and no file written.
C8_RejectedAsNotInRange ==
    (Handled /\ (WindowEmpty \/ NoneLoaded)) =>
        /\ report_error = NoEntriesInRange
        /\ report_path = PyNone
        /\ NothingDone

\* C8, amended: an empty window over loaded entries is rejected with the "no
\* entries in range" message; when no entries are loaded the rejection carries
\* the "no journal entries available" message instead.  Either way no
\* Summarizer call is made, no file is written and no path is set.
C8_EmptyWindowRejected ==
    Handled =>
        /\ WindowEmpty => /\ report_error = NoEntriesInRange
                          /\ report_path = PyNone /\ NothingDone /\ ~InBuild
        /\ NoneLoaded => /\ report_error = NoEntriesAvailable
                         /\ report_path = PyNone /\ NothingDone /\ ~InBuild

\* C8 happens: a click on loaded entries with a range that holds none of them
C8_Witness ==
    /\ Handled /\ WindowEmpty /\ pc = "idle" /\ ~generating
    /\ report_error = NoEntriesInRange

---------------------------------------------------------------------------
(* build_report: the order of the grouped excerpts in the payload *)

\* build_report has built its grouped excerpts
GroupsBuilt == InBuild /\ pc \notin {"build_start", "overall_activity", "overall_emotion",
                                     "groups"}

\* the place of x in the sequence order
Pos(order, x) == CHOOSE i \in DOMAIN order : order[i] = x

\* the groups of the excerpts are values of order, and follow it
FollowsOrder(excerpts, order) ==
    /\ \A i \in DOMAIN excerpts : excerpts[i].group \in Range(order)
    /\ \A i, j \in DOMAIN excerpts :
          i < j => Pos(order, excerpts[i].group) < Pos(order, excerpts[j].group)

\* the non-empty trimmed texts of the window's entries whose column col is k,
\* in the window's order, joined (no budget is reached)
WindowTexts(col, k) ==
    LET grp == SelectSeq(local.subset.rows, LAMBDA r : KeyOf(r, col) = k)
        texts == [i \in DOMAIN grp |-> Strip(grp[i].text)]
    IN  JoinSpace(SelectSeq(texts, LAMBDA t : t # <<>>))

\* C11: in the payload the day-of-week excerpts follow Monday..Sunday and are
\* built from the entries of a known weekday only, and the time-of-day
\* excerpts follow morning, afternoon, evening.
C11_CanonicalOrder ==
    GroupsBuilt =>
        /\ FollowsOrder(local.by_dow, dow_order)
        /\ \A i \in DOMAIN local.by_dow :
              local.by_dow[i].excerpts = WindowTexts("day_of_week", local.by_dow[i].group)
        /\ FollowsOrder(local.by_tod, tod_order)

\* what the code keeps for C11: the day-of-week excerpts come from entries of
\* a known weekday only, and those of the weekdays that have entries follow
\* Monday..Sunday
C11_KnownDaysInOrder ==
    GroupsBuilt =>
        LET filled == SelectSeq(local.by_dow, LAMBDA g :
                         \E i \in DOMAIN local.subset.rows :
                            local.subset.rows[i].day_of_week = g.group)
        IN  /\ FollowsOrder(filled, dow_order)
            /\ \A i \in DOMAIN local.by_dow :
                  /\ local.by_dow[i].group \in Range(dow_order)
                  /\ local.by_dow[i].excerpts
                         = WindowTexts("day_of_week", local.by_dow[i].group)

\* the time-of-day part of C11 alone
C11_TimesInOrder == GroupsBuilt => FollowsOrder(local.by_tod, tod_order)

---------------------------------------------------------------------------
(* _extract_json_from_reply and the rendering of an observation reply, on   *)
(* every reply up to a length                                               *)

ReplyTokens == {"x", " ", "\n", "FENCE", "json", "{", "}", "m", "n", "[", "]", "1"}

\* the months of the window the observations are rendered for
ReplyMonthLabels == <<202401, 202402>>

InitReply ==
    /\ pc = "call"
    /\ df = NoneDF
    /\ IdleFilterArgs
    /\ IdleAggArgs
    /\ IdleChatArgs
    /\ IdleApp
    /\ reply_text \in SeqsUpTo(ReplyTokens, MaxReplyLen)
    /\ filename = NoRequest
    /\ out = PyNone

\* parsed = _extract_json_from_reply(reply)
ExtractJson ==
    /\ pc = "call"
    /\ out' = [parsed |-> _extract_json_from_reply(reply_text)]
    /\ pc' = "extracted"
    /\ UNCHANGED <<df, filterArgs, aggArgs, ioArgs, chatArgs, appVars>>

\* build_report, for a reply that is a non-empty string: strip, extract, and
\* render as tables or as a bullet list
RenderObservation ==
    /\ pc = "extracted"
    /\ reply_text # <<>>
    /\ out' = [parsed |-> out.parsed,
               section |-> ObservationSection(reply_text, ReplyMonthLabels)]
    /\ pc' = "done"
    /\ UNCHANGED <<df, filterArgs, aggArgs, ioArgs, chatArgs, appVars>>

NextReply == ExtractJson \/ RenderObservation

SpecReply == InitReply /\ [][NextReply]_vars

---------------------------------------------------------------------------
(* The three candidates of the extractor, as stated *)

\* (a) the content of the first fenced code block, without its json tag
FencedBlock(r) ==
    LET fences == {i \in DOMAIN r : r[i] = "FENCE"}
    IN  IF Cardinality(fences) < 2 THEN <<"nomatch">>
        ELSE LET a == CHOOSE i \in fences : \A j \in fences : i <= j
                 b == CHOOSE i \in fences : i > a /\ \A j \in fences : j > a => i <= j
                 inner == SubSeq(r, a + 1, b - 1)
             IN  Strip(IF inner # <<>> /\ inner[1] = "json" THEN Tail(inner) ELSE inner)

\* the nesting depth of braces after the first i tokens of r
RECURSIVE Depth(_, _)
Depth(r, i) ==
    IF i = 0 THEN 0
    ELSE Depth(r, i - 1) + (IF r[i] = "{" THEN 1 ELSE IF r[i] = "}" THEN -1 ELSE 0)

\* (b) the first top-level {...} span: from the first "{" to the "}" closing it
TopLevelSpan(r) ==
    LET opens == {i \in DOMAIN r : r[i] = "{"}
    IN  IF opens = {} THEN <<"nomatch">>
        ELSE LET first == CHOOSE i \in opens : \A j \in opens : i <= j
                 closes == {i \in DOMAIN r : i > first /\ r[i] = "}"
                              /\ Depth(r, i) = Depth(r, first - 1)}
             IN  IF closes = {} THEN <<"nomatch">>
                 ELSE SubSeq(r, first, CHOOSE i \in closes : \A j \in closes : i <= j)

\* the candidates in the stated order: fenced block, top-level span, whole reply
Candidates(r) == <<FencedBlock(r), TopLevelSpan(r), r>>

Parses(c) == c # <<"nomatch">> /\ json_loads(c) # JsonError

\* the extractor has returned
Extracted == pc \in {"extracted", "done"}

\* C12: the result is the JSON value of the first of the three candidates
\* (fenced block, first top-level {...} span, whole reply) that parses; it is
\* "no structured result" if and only if all three fail; when present it is a
\* JSON object.
C12_FirstCandidateThatParses ==
    Extracted =>
        LET cands == Candidates(Strip(reply_text))
            ok == {i \in 1..3 : Parses(cands[i])}
        IN  /\ out.parsed = PyNone <=> ok = {}
            /\ ok # {} =>
                  out.parsed = json_loads(cands[CHOOSE i \in ok : \A j \in ok : i <= j])
            /\ out.parsed # PyNone => out.parsed.t = "dict"

\* what the code keeps for C12: the order and the "if and only if", for a
\* reply with at most one closing brace
C12_WhenOneClosingBrace ==
    (Extracted /\ Cardinality({i \in DOMAIN reply_text : reply_text[i] = "}"}) <= 1) =>
        LET cands == Candidates(Strip(reply_text))
            ok == {i \in 1..3 : Parses(cands[i])}
        IN  /\ out.parsed = PyNone <=> ok = {}
            /\ ok # {} =>
                  out.parsed = json_loads(cands[CHOOSE i \in ok : \A j \in ok : i <= j])

---------------------------------------------------------------------------
(* The rendering of an observation reply, as stated *)

\* the reply's object has no observation for the label: parsed[key] holds no
\* object whose row_key is the label
Omitted(parsed, key, row_key, label) ==
    ~ /\ parsed.t = "dict" /\ key \in DOMAIN parsed.v /\ parsed.v[key].t = "list"
      /\ \E i \in DOMAIN parsed.v[key].v :
            LET r == parsed.v[key].v[i]
            IN  r.t = "dict" /\ row_key \in DOMAIN r.v /\ r.v[row_key] = label

\* the table has one row per label, in their order, with "-" for a label the
\* reply omitted and an observation otherwise
TableAsStated(table, parsed, key, row_key, labels) ==
    /\ table.kind = "table"
    /\ Len(table.rows) = Len(labels)
    /\ \A i \in DOMAIN labels :
          /\ table.rows[i].label = labels[i]
          /\ Omitted(parsed, key, row_key, labels[i]) <=> table.rows[i].obs = <<"-">>

\* the non-empty lines of the raw reply, trimmed
NonEmptyLines(raw) ==
    LET lines == Split(raw, "\n")
    IN  SelectSeq([i \in DOMAIN lines |-> Strip(lines[i])], LAMBDA ln : ln # <<>>)

\* the section for the extractor's outcome, as stated
SectionAsStated ==
    /\ out.section.kind # "raised"
    /\ out.parsed # PyNone =>
          /\ out.section.kind = "tables"
          /\ TableAsStated(out.section.by_month, out.parsed, "by_month", "month",
                           ReplyMonthLabels)
          /\ TableAsStated(out.section.by_day_of_week, out.parsed, "by_day_of_week",
                           "day", dow_order)
          /\ TableAsStated(out.section.by_time_of_day, out.parsed, "by_time_of_day",
                           "time", tod_order)
    /\ (out.parsed = PyNone /\ NonEmptyLines(reply_text) # <<>>) =>
          /\ out.section.kind = "bullets"
          /\ out.section.items = NonEmptyLines(reply_text)

\* C13: when the extractor succeeds the section is three tables with one row
\* per expected label and "-" for every label the reply omitted; when it fails
\* the section is a bullet list with one bullet per non-empty line of the raw
\* reply; no outcome of the extractor makes the rendering raise.
C13_TablesOrBullets == pc = "done" => SectionAsStated

\* the extractor returned a non-empty object whose members are all lists
ObjectOfLists(parsed) ==
    /\ parsed.t = "dict" /\ DOMAIN parsed.v # {}
    /\ \A k \in DOMAIN parsed.v : parsed.v[k].t = "list"

\* what the code keeps for C13: the same when the extractor fails or returns
\* a non-empty object of lists
C13_WhenObjectOfLists ==
    (pc = "done" /\ (out.parsed = PyNone \/ ObjectOfLists(out.parsed))) => SectionAsStated

---------------------------------------------------------------------------
(* filter_entries applied to its own result, with the same criteria *)

InitFilterTwice == InitFilter \/ InitKeyword

\* the second call: the first result is filtered with the same criteria
FilterAgain ==
    /\ pc = "done"
    /\ out' = [first |-> out,
               second |-> filter_entries(out, date_from, date_to, days, times, keywords)]
    /\ pc' = "again"
    /\ UNCHANGED <<df, filterArgs, aggArgs, ioArgs, chatArgs, appVars>>

NextFilterTwice == FilterEntries \/ FilterAgain

SpecFilterTwice == InitFilterTwice /\ [][NextFilterTwice]_vars

C14_WitnessEmpty ==
    pc = "again" /\ df.rows # <<>> /\ out.first.rows = <<>> /\ out.second.rows = <<>>

---------------------------------------------------------------------------
(* filter_entries and filter_entries_by_date_only on the same arguments *)

FilterEntriesByDateOnly ==
    /\ pc = "call"
    /\ out' = filter_entries_by_date_only(df, date_from, date_to)
    /\ pc' = "done_date_only"
    /\ UNCHANGED <<df, filterArgs, aggArgs, ioArgs, chatArgs, appVars>>

NextFilterCalls == FilterEntries \/ FilterEntriesByDateOnly

SpecFilterCalls == InitFilter /\ [][NextFilterCalls]_vars

\* C15: on a collection that is None or empty, filter_entries and
\* filter_entries_by_date_only return an empty collection and do not raise,
\* whatever the date bounds, days, times and keywords.
C15_EmptyInEmptyOut ==
    (pc \in {"done", "done_date_only"} /\ (df.none \/ df.rows = <<>>)) =>
        /\ out # [kind |-> "raised"]
        /\ ~out.none
        /\ out.rows = <<>>

\* C15 happens: filter_entries_by_date_only has returned on None, both bounds set
C15_Witness ==
    /\ pc = "done_date_only" /\ df.none
    /\ date_from # None /\ date_to # None
    /\ out = EmptyDataFrame

\* C15 happens: filter_entries has returned on an empty collection, every
\* criterion set
C15_WitnessEmpty ==
    /\ pc = "done" /\ ~df.none /\ df.rows = <<>>
    /\ date_from # None /\ date_to # None /\ days # {} /\ times # {} /\ keywords # <<>>
    /\ out = EmptyDataFrame

---------------------------------------------------------------------------
(* Report generation: the analysis date range *)

\* the range has fewer than two bounds
RangeMissing == Len(analysis_date_range) < 2

\* the range has two places but one of its bounds is unset
RangePartial ==
    /\ Len(analysis_date_range) >= 2
    /\ \E i \in 1..2 : analysis_date_range[i] = None

\* the click was rejected with a message, and nothing was computed for it
RejectedUntouched ==
    /\ report_error # PyNone /\ report_error # GenerationFailed
    /\ report_path = PyNone
    /\ ~InBuild
    /\ NothingDone

\* C16: a generation with a missing or partial analysis date range (no range,
\* fewer than two bounds, or one bound unset) is rejected with a message, with
\* no filtering, no Summarizer call and no report file.
C16_PartialRangeRejected ==
    (Handled /\ (RangeMissing \/ RangePartial)) => RejectedUntouched

\* what the code keeps for C16: a range with fewer than two bounds is rejected
C16_MissingRangeRejected ==
    (Handled /\ RangeMissing) =>
        /\ RejectedUntouched
        /\ ~NoneLoaded => report_error = SelectDateRange

---------------------------------------------------------------------------
(* Two clicks in a row *)

\* the collections of the two-click runs
TwoBuildsFrames ==
    {DataFrame(<<[idx |-> 0, date |-> 20240105, day_of_week |-> "Friday",
                  time_of_day |-> "morning", text |-> t]>>) : t \in {<<"a">>, <<" ">>}}

\* without a credential: a valid range, one without entries, none; and with a
\* credential, on an entry without text (only the observation calls are made)
InitTwoBuilds ==
    /\ ReportIdle
    /\ observed = FALSE
    /\ \/ /\ api_key = PyNone
          /\ entries_data \in TwoBuildsFrames \cup {NoneDF}
          /\ \E a, b \in ClickInputs({<<20240101, 20240229>>, <<20240301, 20240331>>, <<>>},
                                     {<<>>, <<"a">>}) : todo = <<a, b>>
       \/ /\ api_key = PyStr(<<"k">>)
          /\ entries_data = DataFrame(<<[idx |-> 0, date |-> 20240105,
                                         day_of_week |-> "Friday",
                                         time_of_day |-> "morning", text |-> <<" ">>]>>)
          /\ \E a, b \in ClickInputs({<<20240101, 20240229>>, <<20240301, 20240331>>},
                                     {<<>>}) : todo = <<a, b>>

SpecTwoBuilds == InitTwoBuilds /\ [][NextReport]_vars

\* the running build has its timestamp, and a build before it has returned
\* with a timestamp of another second
AfterEarlierBuild ==
    /\ InBuild /\ pc # "build_start"
    /\ local.prev.some /\ local.prev.now # local.now

\* C17: a build whose timestamp differs in the seconds from that of an earlier
\* build writes a file of another name, leaves the earlier build's file as that
\* build wrote it, and, once it has returned, its own file holds its own
\* complete document.
C17_DistinctFiles ==
    AfterEarlierBuild =>
        /\ Filename(local.prev.now) # Filename(local.now)
        /\ Filename(local.prev.now) \in DOMAIN reports
        /\ reports[Filename(local.prev.now)] = local.prev.doc
        /\ Built =>
              /\ Filename(local.now) \in DOMAIN reports
              /\ reports[Filename(local.now)] = FullDoc(local)
              /\ report_path \in {PyNone, ReportPath(local.now)}

\* C17 happens: a second build has returned, a second after the first, with
\* another document
C17_Witness ==
    /\ AfterEarlierBuild /\ pc = "finally" /\ report_path = ReportPath(local.now)
    /\ FullDoc(local) # local.prev.doc
    /\ Cardinality(DOMAIN reports) = 2

---------------------------------------------------------------------------
(* The handler's outcome over a sequence of clicks *)

\* a handler is running
Running == pc # "idle"

\* C19: over any sequence of clicks, report_path and report_error are never
\* both set; a click starts with both cleared, and a path that is set is the
\* path of the current click's own build, never that of an earlier one; when a
\* handler has finished exactly one of the two is set; generating is true
\* only while a handler runs and false once it has finished.
C19_PathErrorFlag ==
    /\ ~(report_path # PyNone /\ report_error # PyNone)
    /\ pc = "validate" => report_path = PyNone /\ report_error = PyNone
    /\ report_path # PyNone => InBuild /\ report_path = ReportPath(local.now)
    /\ (~Running /\ clicks > 0) => (report_path # PyNone) # (report_error # PyNone)
    /\ generating => Running
    /\ ~Running => ~generating

\* C19 happens: a first click gave a report, a second one was rejected, and
\* its handler has finished
C19_Witness ==
    /\ ~Running /\ clicks = 2 /\ ~generating
    /\ local.prev.some
    /\ report_error = NoEntriesInRange /\ report_path = PyNone

\* C19 happens: a first click gave a report and the second one raised
C19_WitnessException ==
    /\ ~Running /\ clicks = 2 /\ local.prev.some
    /\ report_error = GenerationFailed /\ report_path = PyNone

---------------------------------------------------------------------------
(* api.py: get_report *)
(*                                                                         *)
(* A path is the sequence of its segments from the root; a segment is a    *)
(* file name, in the shape of Filename.  The file system holds the reports *)
(* directory with the files build_report wrote, and next to it the files   *)
(* of the application.                                                     *)

\* a segment with an ordinary name
Name(s) == [prefix |-> s, stamp |-> 0, suffix |-> ""]

\* _APP_DIR and _REPORTS_DIR, resolved
APP_DIR == <<Name("app")>>
REPORTS_DIR == APP_DIR \o <<Name("reports")>>

\* journal_entries.csv, next to the reports directory
CSV_PATH == APP_DIR \o <<Name("journal_entries.csv")>>
CsvBytes == [csv |-> TRUE]

\* the regular files: path -> content
Files(dir) ==
    [p \in {CSV_PATH} \cup {REPORTS_DIR \o <<n>> : n \in DOMAIN dir} |->
        IF p = CSV_PATH THEN CsvBytes ELSE dir[p[Len(p)]]]

\* a path with "." and ".." worked out, ".." at the root staying there
RECURSIVE Canonical(_)
Canonical(p) ==
    IF p = <<>> THEN <<>>
    ELSE LET before == Canonical(SubSeq(p, 1, Len(p) - 1))
             last == p[Len(p)]
         IN  IF last = Name(".") THEN before
             ELSE IF last = Name("..")
                  THEN (IF before = <<>> THEN <<>> ELSE SubSeq(before, 1, Len(before) - 1))
             ELSE Append(before, last)

\* _REPORTS_DIR / filename: an absolute filename replaces the directory
Join(base, f) == IF f.abs THEN f.segs ELSE base \o f.segs

\* Path.resolve() that leaves the path as it is
ResolveNot(p) == p

\* Path.resolve()
Resolve(p) == Canonical(p)

\* path.relative_to(base) does not raise ValueError: base's segments lead p's
IsRelativeTo(p, base) ==
    Len(p) >= Len(base) /\ SubSeq(p, 1, Len(base)) = base

\* path.is_file(), the system walking the path
IsFile(p, dir) == Canonical(p) \in DOMAIN Files(dir)

NotFound == [status |-> 404, detail |-> "Report not found"]

\* FileResponse(path, media_type="text/html")
FileResponse(p, dir) ==
    [status |-> 200, media_type |-> "text/html", body |-> Files(dir)[Canonical(p)]]

get_report(f, dir) ==
    LET path == Resolve(Join(REPORTS_DIR, f))
    IN  IF ~IsRelativeTo(path, REPORTS_DIR) THEN NotFound
        ELSE IF ~IsFile(path, dir) THEN NotFound
        ELSE FileResponse(path, dir)

\* the segments of the requests
Segments == {Filename(0), Filename(1), Name(".."), Name("app"), Name("reports"),
             Name("journal_entries.csv")}

ReportRequests == [asked : {TRUE}, abs : BOOLEAN, segs : SeqsUpTo(Segments, MaxSegments)]

\* a request GET /reports/<filename>, at any moment of a generation; out
\* keeps the reports directory as it was then, next to the response.
\* get_report keeps no state between requests: a run follows one request.
GetReport ==
    /\ ~filename.asked
    /\ \E f \in ReportRequests :
          /\ filename' = f
          /\ out' = [dir |-> reports, response |-> get_report(f, reports)]
    /\ UNCHANGED <<pc, df, filterArgs, aggArgs, reply_text, chatArgs, appVars>>

NextRetrieve == NextReport \/ GetReport

\* one generation, and requests at any moment of it: without a credential,
\* or with one on an entry without text (only the observation calls are made,
\* and a reply may make the build raise)
InitRetrieve ==
    /\ ReportIdle
    /\ observed = FALSE
    /\ \/ /\ api_key = PyNone
          /\ entries_data \in TwoBuildsFrames
          /\ \E a \in ClickInputs({<<20240101, 20240229>>}, {<<>>, <<"a">>}) : todo = <<a>>
       \/ /\ api_key = PyStr(<<"k">>)
          /\ entries_data = DataFrame(<<[idx |-> 0, date |-> 20240105,
                                         day_of_week |-> "Friday",
                                         time_of_day |-> "morning", text |-> <<" ">>]>>)
          /\ todo = <<[range |-> <<20240101, 20240229>>, trend |-> <<>>]>>

SpecRetrieve == InitRetrieve /\ [][NextRetrieve]_vars

---------------------------------------------------------------------------
(* C18 *)

\* the file the request names, once the path is worked out
Target == Canonical(Join(REPORTS_DIR, filename))

InsideReports ==
    /\ Len(Target) > Len(REPORTS_DIR)
    /\ \A i \in 1..Len(REPORTS_DIR) : Target[i] = REPORTS_DIR[i]

\* the request names a file build_report wrote, as the directory was then
NamesWrittenReport ==
    /\ InsideReports
    /\ Len(Target) = Len(REPORTS_DIR) + 1
    /\ Target[Len(Target)] \in DOMAIN out.dir

Served == out.response.status = 200

\* C18: a request is served the bytes of a file exactly when its filename
\* resolves to an existing file inside the reports directory, and the bytes
\* are then those build_report wrote; every other request (a filename that
\* resolves outside the directory, a missing file) gets the not-found
\* response, which carries no file content.
C18_ServedOnlyInsideReports ==
    filename.asked =>
        IF NamesWrittenReport
        THEN /\ Served
             /\ out.response.body = out.dir[Target[Len(Target)]]
        ELSE /\ out.response.status = 404
             /\ "body" \notin DOMAIN out.response

\* a written report reached through a detour, and served
C18_Witness ==
    /\ filename.asked /\ Len(filename.segs) = MaxSegments
    /\ filename.segs[1] = Name("..")
    /\ NamesWrittenReport /\ Served
    /\ out.response.body # EmptyFile

\* the file next to the reports directory asked for, and refused
C18_WitnessOutside ==
    /\ filename.asked /\ Target = CSV_PATH
    /\ out.response = NotFound

\* a report that was not written asked for, and refused
C18_WitnessMissing ==
    /\ filename.asked /\ InsideReports /\ ~NamesWrittenReport
    /\ out.dir # <<>>
    /\ out.response = NotFound

====
